---- MODULE Spec2Model ----
(***************************************************************************)
(* Model of project2ftpclient/ftp_client.py: the FTPClient constructor     *)
(* (control connection, login handshake, dispatch of one operation, QUIT)  *)
(* running against an RFC 959 server.  One process run is one session;     *)
(* the local and the remote file systems persist from a session to the     *)
(* next one.                                                               *)
(*                                                                         *)
(* Strings are sequences of one-character strings.  File contents and the  *)
(* bytes on a data connection are sequences of naturals.  A control reply  *)
(* is a record [code, re, text]: its status code, the index in `sent' of   *)
(* the command it answers (0 for the greeting; a history field the client  *)
(* never reads), and, for a PASV reply, the tokens of its text.            *)
(***************************************************************************)
EXTENDS Integers, Sequences, FiniteSets, TLC

\* ------------------------------------------------------------------ bounds
\* number of consecutive runs of the client that are explored
MaxSessions == 2
\* longest local file offered for upload
MaxFileLen == 3
\* the size of one read()/recv() of file data: 4096 in the source (lines
\* 281, 284, 309 and 110), scaled down so that files shorter than, equal to
\* and longer than one chunk fit in MaxFileLen
ChunkSize == 2

\* ----------------------------------------------------------------- strings
URL_A == <<"f","t","p",":","/","/","u",":","p","/","a">>
URL_ROOT == <<"f","t","p",":","/","/","u",":","p">>
URL_H == <<"f","t","p",":","/","/","u",":","p","@","h","/","a">>
LOCAL_F == <<"f">>
LOCAL_G == <<"g">>
FTP_SCHEME == <<"f","t","p",":","/","/">>

\* every string a run can be given as an argument
ArgStrings == {URL_A, URL_ROOT, URL_H, LOCAL_F, LOCAL_G}

\* the argument lists that are explored
ParamLists ==
  { <<>>, <<URL_A>>, <<URL_ROOT>>, <<URL_H>>, <<LOCAL_F>>,
    <<URL_A, LOCAL_G>>, <<LOCAL_F, URL_A>>, <<URL_A, URL_A>>,
    <<LOCAL_F, LOCAL_G>> }

Operations == {"ls", "rm", "rmdir", "mkdir", "cp", "mv"}

\* remote paths the server knows about
R_A == <<"/","a">>
R_ROOT == <<"/">>
RemotePaths == {R_A, R_ROOT}

\* s.startswith(p)
StartsWith(s, p) ==
  /\ Len(s) >= Len(p)
  /\ SubSeq(s, 1, Len(p)) = p

\* s[n:]
DropFirst(s, n) == IF n >= Len(s) THEN <<>> ELSE SubSeq(s, n + 1, Len(s))

\* position (1-based) of the first c in s, 0 when absent
IndexOf(s, c) ==
  IF \E i \in 1..Len(s) : s[i] = c
    THEN CHOOSE i \in 1..Len(s) : s[i] = c /\ \A j \in 1..(i - 1) : s[j] # c
    ELSE 0

\* s.split(c): the list of the pieces of s between occurrences of c
RECURSIVE Split(_, _)
Split(s, c) ==
  LET i == IndexOf(s, c) IN
    IF i = 0 THEN <<s>>
    ELSE <<SubSeq(s, 1, i - 1)>> \o Split(DropFirst(s, i), c)

\* ------------------------------------------------------------- parse_url
IndexError == [ok |-> FALSE, username |-> <<>>, password |-> <<>>, path |-> <<>>]

\* the url that parse_url picks, or <<"!">> when indexing params raises
PickUrl(op, ps) ==
  IF op = "cp" \/ op = "mv"
    THEN IF Len(ps) < 1 THEN <<"!">>
         ELSE IF StartsWith(ps[1], FTP_SCHEME) THEN ps[1]
         ELSE IF Len(ps) < 2 THEN <<"!">>
         ELSE ps[2]
    ELSE IF Len(ps) < 1 THEN <<"!">> ELSE ps[1]

parse_url(op, ps) ==
  LET url == PickUrl(op, ps)
      url_body == DropFirst(url, 6)
      parts == Split(url_body, ":")
  IN IF url = <<"!">> \/ Len(parts) < 2 THEN IndexError
     ELSE LET password_and_path == parts[2]
              slash == IndexOf(password_and_path, "/")
          IN [ok |-> TRUE,
              username |-> parts[1],
              password |-> Split(password_and_path, "@")[1],
              path |-> IF slash > 0
                         THEN DropFirst(password_and_path, slash - 1)
                         ELSE <<"/">>]

\* ------------------------------------------------------- reply text (PASV)
Num(n) == [t |-> "num", v |-> n]
Comma == [t |-> "sep", v |-> 0]
Txt == [t |-> "txt", v |-> 0]
Dot == [t |-> "dot", v |-> 0]

\* "227 Entering Passive Mode (h1,h2,h3,h4,p1,p2)." for the six numbers h
PasvText(h) == <<Num(227), Txt, Num(h[1]), Comma, Num(h[2]), Comma, Num(h[3]),
                 Comma, Num(h[4]), Comma, Num(h[5]), Comma, Num(h[6]), Txt>>
\* "227 Passive (v1,2) h1,h2,h3,h4,p1,p2": numbers and a comma come before
\* the address
PasvTextLong(h) == <<Num(227), Txt, Num(1), Comma, Num(2), Txt>>
                     \o SubSeq(PasvText(h), 3, 14)

\* the addresses the server may open, and the reply texts it announces
\* them with
H_DOC == <<192, 168, 1, 5, 200, 3>>
H_MAX == <<10, 0, 0, 255, 255, 255>>
PasvReplies ==
  { [host |-> H_DOC, text |-> PasvText(H_DOC)],
    [host |-> H_MAX, text |-> PasvText(H_MAX)],
    [host |-> H_DOC, text |-> PasvTextLong(H_DOC)] }
\* "530 Please login with USER and PASS."
PlainText(code) == <<Num(code), Txt>>

\* does (\d+),(\d+),(\d+),(\d+),(\d+),(\d+) match the tokens from position i
MatchesAt(text, i) ==
  /\ i + 10 <= Len(text)
  /\ \A k \in 0..10 :
       text[i + k].t = (IF k % 2 = 0 THEN "num" ELSE "sep")

\* re.search: the leftmost match, 0 when there is none
PasvSearch(text) ==
  IF \E i \in 1..Len(text) : MatchesAt(text, i)
    THEN CHOOSE i \in 1..Len(text) :
           MatchesAt(text, i) /\ \A j \in 1..(i - 1) : ~MatchesAt(text, j)
    ELSE 0

NoEndpoint == [ok |-> FALSE, ip |-> <<>>, port |-> 0]

\* the bug of taking the low byte of the port for the high one
PasvEndpoint_Swapped(text) ==
  LET i == PasvSearch(text) IN
    IF i = 0 THEN NoEndpoint
    ELSE [ok |-> TRUE,
          ip |-> <<text[i], Dot, text[i + 2], Dot, text[i + 4], Dot,
                   text[i + 6]>>,
          port |-> text[i + 8].v + text[i + 10].v * 256]

\* the (ip_address, port) that enter_passive_mode returns for a reply text
PasvEndpoint(text) ==
  LET i == PasvSearch(text) IN
    IF i = 0 THEN NoEndpoint
    ELSE [ok |-> TRUE,
          ip |-> <<text[i], Dot, text[i + 2], Dot, text[i + 4], Dot,
                   text[i + 6]>>,
          port |-> text[i + 8].v * 256 + text[i + 10].v]


\* ------------------------------------------------------------ file systems
NoFile == [kind |-> "none", bytes |-> <<>>]
File(b) == [kind |-> "file", bytes |-> b]
Dir == [kind |-> "dir", bytes |-> <<>>]

\* the local files offered for upload: one per length, bytes all distinct
Content(n) == [i \in 1..n |-> i]
Files == {Content(n) : n \in 0..MaxFileLen}
\* what the remote file /a holds before the first run
RemoteOld == <<7, 8>>

\* open(p, 'wb') needs p's directory: the working directory holds no
\* sub-directory, so a path with a '/' in it cannot be created
CanCreate(p) == IndexOf(p, "/") = 0

\* the text the server writes on the data connection for LIST p
Listing(fs, p) ==
  IF fs[p].kind = "file" THEN <<1, 2, 3>>
  ELSE IF fs[R_A].kind = "none" THEN <<>> ELSE <<1, 2, 3>>

\* ------------------------------------------------------------------- state
VARIABLES
  session,     \* number of the current run of the program
  operation,   \* self.operation
  params,      \* self.params
  pc,          \* position of the client in __init__ and the methods it calls
  waiting,     \* the client is blocked in read_response
  login,       \* username, password, path of line 33
  rpath,       \* remote path of the operation being run
  lpath,       \* local path of the operation being run
  sent,        \* the commands written on the control socket, in order
  srvNext,     \* index in sent of the next command the server handles
  ctrl,        \* replies written by the server and not yet read by the client
  responses,   \* what each read_response call returned, in order
  out,         \* the outcomes the client printed
  dataSock,    \* the client's data socket: none, connected, closed
  endpoint,    \* what enter_passive_mode returned
  fpos,        \* how many bytes of the local file send_stor has read
  data,        \* the chunk send_stor holds
  c2s,         \* bytes the server received on the data connection
  s2c,         \* bytes the server wrote on the data connection, not yet read
  srvData,     \* the server's data socket: none, listening, accepted, closed
  srvXfer,     \* the transfer the server is running: idle, list, retr, stor
  srvPath,     \* the path of that transfer
  authOK,      \* the server accepted the login
  remoteFS,    \* the server's files
  localFS,     \* the client's files
  upSrc,       \* history: the local file's bytes when the upload began
  origin,      \* history: for a remote file stored by an upload, its source
  served,      \* history: the origin of the file a RETR served completely
  listed,      \* what send_ls read from the data connection and printed
  srvEp,       \* the address the server listens on after its 227 reply
  srvSrc,      \* history: the bytes the server set out to write for LIST/RETR
  srvWrote,    \* history: the bytes the server wrote on the data connection
  made         \* history: the directory the previous run reported as created

client == <<operation, params, pc, waiting, login, rpath, lpath, out,
            dataSock, endpoint, fpos, data, upSrc, listed>>
wire == <<sent, srvNext, ctrl, responses, c2s, s2c>>
server == <<srvData, srvXfer, srvPath, authOK, remoteFS, origin, served>>
hist == <<srvEp, srvSrc, srvWrote, made>>
vars == <<session, client, wire, server, localFS, hist>>

Reply(code, re, text) == [code |-> code, re |-> re, text |-> text]
Plain(code, re) == Reply(code, re, PlainText(code))
Cmd(c, a) == [cmd |-> c, arg |-> a, dataOpen |-> dataSock = "connected"]

Unknown == [known |-> FALSE, bytes |-> <<>>]
Known(b) == [known |-> TRUE, bytes |-> b]

\* the first reply of the response the last read_response returned
LastResponse == responses[Len(responses)]
LastCode == LastResponse[1].code

Terminated == pc \in {"done", "crashed", "exited"}

\* the bug of a data socket made without `with': it is never closed
CloseData_Leak(s) == s

\* __exit__ of `with socket.socket(...) as data_socket': the socket is closed
CloseData(s) == "closed"

\* the state of a fresh process, given its arguments
StartRun(op, ps) ==
  /\ operation' = op
  /\ params' = ps
  /\ pc' = "connect"
  /\ waiting' = FALSE
  /\ login' = IndexError
  /\ rpath' = <<>>
  /\ lpath' = <<>>
  /\ out' = <<>>
  /\ dataSock' = "none"
  /\ endpoint' = NoEndpoint
  /\ fpos' = 0
  /\ data' = <<>>
  /\ upSrc' = <<>>
  /\ listed' = <<>>
  /\ sent' = <<>>
  /\ srvNext' = 1
  /\ ctrl' = <<>>
  /\ responses' = <<>>
  /\ c2s' = <<>>
  /\ s2c' = <<>>
  /\ srvData' = "none"
  /\ srvXfer' = "idle"
  /\ srvPath' = <<>>
  /\ authOK' = FALSE
  /\ served' = Unknown
  /\ srvEp' = NoEndpoint
  /\ srvSrc' = Unknown
  /\ srvWrote' = <<>>

Init ==
  /\ session = 1
  /\ operation \in Operations
  /\ params \in ParamLists
  /\ pc = "connect"
  /\ waiting = FALSE
  /\ login = IndexError
  /\ rpath = <<>>
  /\ lpath = <<>>
  /\ out = <<>>
  /\ dataSock = "none"
  /\ endpoint = NoEndpoint
  /\ fpos = 0
  /\ data = <<>>
  /\ upSrc = <<>>
  /\ listed = <<>>
  /\ sent = <<>>
  /\ srvNext = 1
  /\ ctrl = <<>>
  /\ responses = <<>>
  /\ c2s = <<>>
  /\ s2c = <<>>
  /\ srvData = "none"
  /\ srvXfer = "idle"
  /\ srvPath = <<>>
  /\ authOK = FALSE
  /\ served = Unknown
  /\ srvEp = NoEndpoint
  /\ srvSrc = Unknown
  /\ srvWrote = <<>>
  /\ made = <<>>
  /\ \E f \in {File(b) : b \in Files} \cup {NoFile} :
       localFS = [p \in ArgStrings |-> IF p = LOCAL_F THEN f ELSE NoFile]
  /\ \E a \in {File(RemoteOld), NoFile} :
       remoteFS = [p \in RemotePaths |-> IF p = R_ROOT THEN Dir ELSE a]
  /\ origin = [p \in RemotePaths |-> Unknown]


\* ------------------------------------------------------------------ client
Say(m) == out' = Append(out, m)

\* send_command up to recv: the command is written, the client then blocks
Send(c, a) ==
  /\ sent' = Append(sent, Cmd(c, a))
  /\ waiting' = TRUE

Min(a, b) == IF a < b THEN a ELSE b

\* the operation of send_cp / send_mv: a download when the source is a URL
Method ==
  IF operation = "ls" THEN "ls"
  ELSE IF Len(params) >= 1 /\ StartsWith(params[1], FTP_SCHEME) THEN "retr"
  ELSE "stor"

AfterStor == IF operation = "mv" THEN "unlink" ELSE "quit"
AfterRetr == IF operation = "mv" THEN "dele" ELSE "quit"

\* the text of a response: the texts of the replies one recv returned
RECURSIVE ResponseText(_)
ResponseText(resp) ==
  IF resp = <<>> THEN <<>> ELSE resp[1].text \o ResponseText(Tail(resp))

\* the address the server listens on after it has announced the numbers h:
\* "h1.h2.h3.h4", port h5 * 256 + h6
SrvEndpoint(h) ==
  [ok |-> TRUE,
   ip |-> <<Num(h[1]), Dot, Num(h[2]), Dot, Num(h[3]), Dot, Num(h[4])>>,
   port |-> h[5] * 256 + h[6]]

\* lines 26-27: the control connection is made, or connect raises
Connect ==
  /\ pc = "connect"
  /\ \/ /\ pc' = "greeting"
        /\ waiting' = TRUE
        /\ ctrl' = <<Plain(220, 0)>>
     \/ /\ pc' = "crashed"
        /\ UNCHANGED <<waiting, ctrl>>
  /\ UNCHANGED <<hist, session, operation, params, login, rpath, lpath, out,
                 dataSock, endpoint, fpos, data, upSrc, listed, sent, srvNext,
                 responses, c2s, s2c, server, localFS>>

\* read_response: one recv returns the replies that have arrived, or the
\* first few of them; it blocks while there is none
read_response ==
  /\ waiting
  /\ ctrl # <<>>
  /\ \E k \in 1..Len(ctrl) :
       /\ responses' = Append(responses, SubSeq(ctrl, 1, k))
       /\ ctrl' = SubSeq(ctrl, k + 1, Len(ctrl))
  /\ waiting' = FALSE
  /\ UNCHANGED <<hist, session, operation, params, pc, login, rpath, lpath, out,
                 dataSock, endpoint, fpos, data, upSrc, listed, sent, srvNext,
                 c2s, s2c, server, localFS>>

\* lines 30-36: greeting printed, parse_url, USER sent
SendUser ==
  /\ pc = "greeting" /\ ~waiting
  /\ LET r == parse_url(operation, params) IN
       IF r.ok
         THEN /\ login' = r
              /\ Send("USER", r.username)
              /\ pc' = "PASS"
         ELSE /\ pc' = "crashed"
              /\ UNCHANGED <<login, sent, waiting>>
  /\ UNCHANGED <<hist, session, operation, params, rpath, lpath, out, dataSock,
                 endpoint, fpos, data, upSrc, listed, srvNext, ctrl,
                 responses, c2s, s2c, server, localFS>>

\* one step of lines 37-42
Handshake(at, c, a, next) ==
  /\ pc = at /\ ~waiting
  /\ Send(c, a)
  /\ pc' = next
  /\ UNCHANGED <<hist, session, operation, params, login, rpath, lpath, out,
                 dataSock, endpoint, fpos, data, upSrc, listed, srvNext, ctrl,
                 responses, c2s, s2c, server, localFS>>

\* the bug of a repeated call: TYPE I is sent where MODE S belongs
send_mode_Repeat == Handshake("MODE", "TYPE", <<"I">>, "STRU")

SendPass == Handshake("PASS", "PASS", login.password, "TYPE")
send_type == Handshake("TYPE", "TYPE", <<"I">>, "MODE")
send_mode == Handshake("MODE", "MODE", <<"S">>, "STRU")
send_stru == Handshake("STRU", "STRU", <<"F">>, "dispatch")

\* lines 44-63, with the first lines of send_cp and send_mv
Dispatch ==
  /\ pc = "dispatch" /\ ~waiting
  /\ IF operation \in {"cp", "mv"} /\ Len(params) < 2
       THEN /\ Say("ArgError")
            /\ pc' = "exited"
            /\ UNCHANGED <<rpath, lpath, sent, waiting>>
     ELSE IF operation \in {"cp", "mv"}
       THEN LET remote == IF Method = "retr" THEN params[1] ELSE params[2]
                r == parse_url("cp", <<remote, <<>>>>)
            IN /\ IF r.ok
                    THEN /\ rpath' = r.path
                         /\ lpath' = IF Method = "retr" THEN params[2]
                                                        ELSE params[1]
                         /\ pc' = IF Method = "retr" THEN "pasv"
                                                     ELSE "stor_check"
                    ELSE /\ pc' = "crashed"
                         /\ UNCHANGED <<rpath, lpath>>
               /\ UNCHANGED <<out, sent, waiting>>
     ELSE IF operation = "rm" /\ Len(params) < 1
       THEN /\ Say("ArgError")
            /\ pc' = "exited"
            /\ UNCHANGED <<rpath, lpath, sent, waiting>>
     ELSE IF operation = "ls"
       THEN /\ rpath' = login.path
            /\ pc' = "pasv"
            /\ UNCHANGED <<lpath, out, sent, waiting>>
     ELSE /\ rpath' = login.path
          /\ Send(CASE operation = "rm" -> "DELE"
                    [] operation = "mkdir" -> "MKD"
                    [] OTHER -> "RMD", login.path)
          /\ pc' = CASE operation = "rm" -> "quit"
                     [] operation = "mkdir" -> "mkd_r"
                     [] OTHER -> "rmd_r"
          /\ UNCHANGED <<lpath, out>>
  /\ UNCHANGED <<hist, session, operation, params, login, dataSock, endpoint, fpos,
                 data, upSrc, listed, srvNext, ctrl, responses, c2s, s2c,
                 server, localFS>>

\* the bug of judging the reply to MKD by the code of RMD
send_mkdir_WrongCode ==
  /\ pc = "mkd_r" /\ ~waiting
  /\ Say(IF LastCode = 250 THEN "MkdOk" ELSE "MkdFailed")
  /\ pc' = "quit"
  /\ UNCHANGED <<hist, session, operation, params, waiting, login, rpath, lpath,
                 dataSock, endpoint, fpos, data, upSrc, listed, wire, server,
                 localFS>>

\* lines 124-128: the reply to MKD is judged
send_mkdir ==
  /\ pc = "mkd_r" /\ ~waiting
  /\ Say(IF LastCode = 257 THEN "MkdOk" ELSE "MkdFailed")
  /\ pc' = "quit"
  /\ UNCHANGED <<hist, session, operation, params, waiting, login, rpath, lpath,
                 dataSock, endpoint, fpos, data, upSrc, listed, wire, server,
                 localFS>>

\* lines 141-145: the reply to RMD is judged
send_rmdir ==
  /\ pc = "rmd_r" /\ ~waiting
  /\ Say(IF LastCode = 250 THEN "RmdOk" ELSE "RmdFailed")
  /\ pc' = "quit"
  /\ UNCHANGED <<hist, session, operation, params, waiting, login, rpath, lpath,
                 dataSock, endpoint, fpos, data, upSrc, listed, wire, server,
                 localFS>>

\* the bug of a missing `return' after the error message of line 265
send_stor_exists_NoReturn ==
  /\ pc = "stor_check"
  /\ IF localFS[lpath].kind = "none" THEN Say("NoLocalFile")
                                     ELSE UNCHANGED out
  /\ pc' = "pasv"
  /\ UNCHANGED <<hist, session, operation, params, waiting, login, rpath, lpath,
                 dataSock, endpoint, fpos, data, upSrc, listed, wire, server,
                 localFS>>

\* lines 263-266: send_stor returns at once when the local file is missing
send_stor_exists ==
  /\ pc = "stor_check"
  /\ IF localFS[lpath].kind = "none"
       THEN /\ Say("NoLocalFile")
            /\ pc' = AfterStor
       ELSE /\ pc' = "pasv"
            /\ UNCHANGED out
  /\ UNCHANGED <<hist, session, operation, params, waiting, login, rpath, lpath,
                 dataSock, endpoint, fpos, data, upSrc, listed, wire, server,
                 localFS>>

\* line 195: PASV is sent
enter_passive_mode ==
  /\ pc = "pasv" /\ ~waiting
  /\ Send("PASV", <<>>)
  /\ pc' = "pasv_r"
  /\ UNCHANGED <<hist, session, operation, params, login, rpath, lpath, out,
                 dataSock, endpoint, fpos, data, upSrc, listed, srvNext, ctrl,
                 responses, c2s, s2c, server, localFS>>

\* the bug of sending the transfer command before the data connection is
\* opened
enter_passive_mode_parse_NoConnect ==
  /\ pc = "pasv_r" /\ ~waiting
  /\ endpoint' = PasvEndpoint(ResponseText(LastResponse))
  /\ IF endpoint'.ok THEN UNCHANGED out ELSE Say("PasvParseError")
  /\ pc' = "xfer_cmd"
  /\ UNCHANGED <<hist, session, operation, params, waiting, login, rpath, lpath,
                 dataSock, fpos, data, upSrc, listed, wire, server, localFS>>

\* lines 196-214: the reply is searched for the six numbers
enter_passive_mode_parse ==
  /\ pc = "pasv_r" /\ ~waiting
  /\ endpoint' = PasvEndpoint(ResponseText(LastResponse))
  /\ IF endpoint'.ok THEN UNCHANGED out ELSE Say("PasvParseError")
  /\ pc' = "data_connect"
  /\ UNCHANGED <<hist, session, operation, params, waiting, login, rpath, lpath,
                 dataSock, fpos, data, upSrc, listed, wire, server, localFS>>

\* lines 104-105, 272-273, 299-300: the data socket is created and
\* connected.  connect((None, None)) raises TypeError; connect to the
\* server's endpoint succeeds or raises; either error leaves the with block
data_connect ==
  /\ pc = "data_connect"
  /\ \/ /\ endpoint = srvEp
        /\ srvData = "listening"
        /\ dataSock' = "connected"
        /\ srvData' = "accepted"
        /\ pc' = "xfer_cmd"
     \/ /\ dataSock' = CloseData("created")
        /\ pc' = "crashed"
        /\ UNCHANGED srvData
  /\ UNCHANGED <<hist, session, operation, params, waiting, login, rpath, lpath, out,
                 endpoint, fpos, data, upSrc, listed, wire, srvXfer, srvPath,
                 authOK, remoteFS, origin, served, localFS>>

\* lines 107, 276, 303: LIST, STOR or RETR is sent
transfer_command ==
  /\ pc = "xfer_cmd"
  /\ Send(CASE Method = "ls" -> "LIST"
            [] Method = "stor" -> "STOR"
            [] OTHER -> "RETR", rpath)
  /\ pc' = Method
  /\ UNCHANGED <<hist, session, operation, params, login, rpath, lpath, out,
                 dataSock, endpoint, fpos, data, upSrc, listed, srvNext, ctrl,
                 responses, c2s, s2c, server, localFS>>


\* lines 108-111: the reply is printed, one recv of the listing, the with
\* block ends.  recv blocks until bytes have arrived or the peer has closed
send_ls ==
  /\ pc = "ls" /\ ~waiting
  /\ s2c # <<>> \/ srvData = "closed"
  /\ \E n \in (IF s2c = <<>> THEN {0} ELSE 1..Min(ChunkSize, Len(s2c))) :
       /\ listed' = SubSeq(s2c, 1, n)
       /\ s2c' = SubSeq(s2c, n + 1, Len(s2c))
  /\ dataSock' = CloseData(dataSock)
  /\ pc' = "quit"
  /\ UNCHANGED <<hist, session, operation, params, waiting, login, rpath, lpath, out,
                 endpoint, fpos, data, upSrc, sent, srvNext, ctrl, responses,
                 c2s, server, localFS>>

\* the bug of a read loop that stops at the first short chunk
ReadChunk_FullOnly(b, pos) ==
  IF pos + ChunkSize <= Len(b) THEN SubSeq(b, pos + 1, pos + ChunkSize)
  ELSE <<>>

\* file.read(4096) at offset pos of the bytes b
ReadChunk(b, pos) == SubSeq(b, pos + 1, Min(Len(b), pos + ChunkSize))

\* lines 279-281: the local file is opened and its first chunk read
send_stor_open ==
  /\ pc = "stor" /\ ~waiting
  /\ upSrc' = localFS[lpath].bytes
  /\ data' = ReadChunk(localFS[lpath].bytes, 0)
  /\ fpos' = Len(data')
  /\ pc' = "stor_loop"
  /\ UNCHANGED <<hist, session, operation, params, waiting, login, rpath, lpath, out,
                 dataSock, endpoint, listed, wire, server, localFS>>

\* lines 282-284: one turn of the loop, or its end and the end of the with
\* block.  sendall to a connection the server has closed raises, or the
\* bytes are buffered and lost
send_stor_loop ==
  /\ pc = "stor_loop"
  /\ IF data # <<>>
       THEN \/ /\ c2s' = IF srvData = "accepted" THEN c2s \o data ELSE c2s
               /\ data' = ReadChunk(localFS[lpath].bytes, fpos)
               /\ fpos' = fpos + Len(data')
               /\ UNCHANGED <<pc, dataSock>>
            \/ /\ srvData = "closed"
               /\ dataSock' = CloseData(dataSock)
               /\ pc' = "crashed"
               /\ UNCHANGED <<c2s, data, fpos>>
       ELSE /\ dataSock' = CloseData(dataSock)
            /\ pc' = AfterStor
            /\ UNCHANGED <<c2s, data, fpos>>
  /\ UNCHANGED <<hist, session, operation, params, waiting, login, rpath, lpath, out,
                 endpoint, upSrc, listed, sent, srvNext, ctrl, responses, s2c,
                 server, localFS>>

\* the bug of opening the local file with 'ab': what it held is kept
send_retr_open_Append ==
  /\ pc = "retr" /\ ~waiting
  /\ IF CanCreate(lpath)
       THEN /\ localFS' = [localFS EXCEPT ![lpath] = File(@.bytes)]
            /\ pc' = "retr_loop"
            /\ UNCHANGED dataSock
       ELSE /\ dataSock' = CloseData(dataSock)
            /\ pc' = "crashed"
            /\ UNCHANGED localFS
  /\ UNCHANGED <<hist, session, operation, params, waiting, login, rpath, lpath, out,
                 endpoint, fpos, data, upSrc, listed, wire, server>>

\* line 306: the local file is created or truncated; open raises when its
\* directory does not exist
send_retr_open ==
  /\ pc = "retr" /\ ~waiting
  /\ IF CanCreate(lpath)
       THEN /\ localFS' = [localFS EXCEPT ![lpath] = File(<<>>)]
            /\ pc' = "retr_loop"
            /\ UNCHANGED dataSock
       ELSE /\ dataSock' = CloseData(dataSock)
            /\ pc' = "crashed"
            /\ UNCHANGED localFS
  /\ UNCHANGED <<hist, session, operation, params, waiting, login, rpath, lpath, out,
                 endpoint, fpos, data, upSrc, listed, wire, server>>

\* lines 308-312: one recv; its bytes are appended, or the loop ends on a
\* zero-length read and the with block ends
send_retr_loop ==
  /\ pc = "retr_loop"
  /\ s2c # <<>> \/ srvData = "closed"
  /\ IF s2c # <<>>
       THEN /\ \E n \in 1..Min(ChunkSize, Len(s2c)) :
                 /\ localFS' = [localFS EXCEPT
                       ![lpath] = File(@.bytes \o SubSeq(s2c, 1, n))]
                 /\ s2c' = SubSeq(s2c, n + 1, Len(s2c))
            /\ UNCHANGED <<pc, dataSock>>
       ELSE /\ dataSock' = CloseData(dataSock)
            /\ pc' = AfterRetr
            /\ UNCHANGED <<localFS, s2c>>
  /\ UNCHANGED <<hist, session, operation, params, waiting, login, rpath, lpath, out,
                 endpoint, fpos, data, upSrc, listed, sent, srvNext, ctrl,
                 responses, c2s, server>>

\* the bug of lines 178 and 179 run inside the with block of send_retr: DELE
\* is sent while the download is under way
send_dele_Early ==
  /\ pc = "retr_loop" /\ operation = "mv"
  /\ Send("DELE", rpath)
  /\ pc' = "quit"
  /\ UNCHANGED <<hist, session, operation, params, login, rpath, lpath, out,
                 dataSock, endpoint, fpos, data, upSrc, listed, srvNext, ctrl,
                 responses, c2s, s2c, server, localFS>>

\* line 179 and line 322: DELE for the file that was downloaded
send_dele ==
  /\ pc = "dele" /\ ~waiting
  /\ Send("DELE", rpath)
  /\ pc' = "quit"
  /\ UNCHANGED <<hist, session, operation, params, login, rpath, lpath, out,
                 dataSock, endpoint, fpos, data, upSrc, listed, srvNext, ctrl,
                 responses, c2s, s2c, server, localFS>>

\* line 184: Path(source_path).unlink() raises when the file is missing
unlink ==
  /\ pc = "unlink"
  /\ IF localFS[lpath].kind = "none"
       THEN /\ pc' = "crashed"
            /\ UNCHANGED localFS
       ELSE /\ localFS' = [localFS EXCEPT ![lpath] = NoFile]
            /\ pc' = "quit"
  /\ UNCHANGED <<hist, session, operation, params, waiting, login, rpath, lpath, out,
                 dataSock, endpoint, fpos, data, upSrc, listed, wire, server>>

\* line 66 and line 251: QUIT is sent
send_quit ==
  /\ pc = "quit" /\ ~waiting
  /\ Send("QUIT", <<>>)
  /\ pc' = "quit_r"
  /\ UNCHANGED <<hist, session, operation, params, login, rpath, lpath, out,
                 dataSock, endpoint, fpos, data, upSrc, listed, srvNext, ctrl,
                 responses, c2s, s2c, server, localFS>>

\* line 252: the reply is printed and the constructor returns
Finish ==
  /\ pc = "quit_r" /\ ~waiting
  /\ pc' = "done"
  /\ UNCHANGED <<hist, session, operation, params, waiting, login, rpath, lpath, out,
                 dataSock, endpoint, fpos, data, upSrc, listed, wire, server,
                 localFS>>

\* ------------------------------------------------------------------ server
\* the server's reply to the command c, numbered i, and what it does to the
\* server's state: [reply, auth, data, xfer, fs, ep].  ch is the server's
\* choice for USER (the login is accepted, with or without a password, or
\* not) and for PASV (a port is opened and announced, or the service is not
\* available)
Keep(r) == [reply |-> r, auth |-> authOK, sd |-> srvData, xfer |-> "idle",
            fs |-> remoteFS, ep |-> srvEp]

Choices(cmd) ==
  IF cmd = "USER"
    THEN {[ok |-> TRUE, code |-> 331, pasv |-> 0],
          [ok |-> TRUE, code |-> 230, pasv |-> 0],
          [ok |-> FALSE, code |-> 530, pasv |-> 0]}
  ELSE IF cmd = "PASV"
    THEN {[ok |-> TRUE, code |-> 227, pasv |-> r] : r \in PasvReplies}
           \cup {[ok |-> FALSE, code |-> 421, pasv |-> 0]}
  ELSE {[ok |-> TRUE, code |-> 0, pasv |-> 0]}

Serve(c, i, ch) ==
  LET k == IF c.arg \in RemotePaths THEN remoteFS[c.arg].kind ELSE "none"
      Refuse(code) ==
        [Keep(Plain(code, i)) EXCEPT
           !.sd = IF srvData = "accepted" THEN "closed" ELSE srvData]
  IN
  CASE c.cmd = "USER" ->
         [Keep(Plain(ch.code, i)) EXCEPT !.auth = ch.ok]
    [] c.cmd = "PASS" -> Keep(Plain(IF authOK THEN 230 ELSE 530, i))
    [] c.cmd = "QUIT" -> Keep(Plain(221, i))
    [] ~authOK -> Refuse(530)
    [] c.cmd \in {"TYPE", "MODE", "STRU"} -> Keep(Plain(200, i))
    [] c.cmd = "PASV" ->
         IF ch.ok
           THEN [Keep(Reply(227, i, ch.pasv.text)) EXCEPT
                   !.sd = "listening", !.ep = SrvEndpoint(ch.pasv.host)]
           ELSE Keep(Plain(ch.code, i))
    [] c.cmd = "MKD" ->
         IF k = "none"
           THEN [Keep(Plain(257, i)) EXCEPT
                   !.fs = [remoteFS EXCEPT ![c.arg] = Dir]]
           ELSE Keep(Plain(550, i))
    [] c.cmd = "RMD" ->
         IF k = "dir" /\ c.arg # R_ROOT
           THEN [Keep(Plain(250, i)) EXCEPT
                   !.fs = [remoteFS EXCEPT ![c.arg] = NoFile]]
           ELSE Keep(Plain(550, i))
    [] c.cmd = "DELE" ->
         IF k = "file"
           THEN [Keep(Plain(250, i)) EXCEPT
                   !.fs = [remoteFS EXCEPT ![c.arg] = NoFile]]
           ELSE Keep(Plain(550, i))
    [] srvData # "accepted" -> Refuse(425)
    [] c.cmd = "LIST" ->
         IF k = "none" THEN Refuse(550)
         ELSE [Keep(Plain(150, i)) EXCEPT !.xfer = "list"]
    [] c.cmd = "RETR" ->
         IF k # "file" THEN Refuse(550)
         ELSE [Keep(Plain(150, i)) EXCEPT !.xfer = "retr"]
    [] c.cmd = "STOR" ->
         IF k = "dir" THEN Refuse(553)
         ELSE [Keep(Plain(150, i)) EXCEPT !.xfer = "stor"]

\* the server handles the next command in order and replies to it
SrvHandle ==
  /\ srvNext <= Len(sent)
  /\ srvXfer = "idle"
  /\ \E ch \in Choices(sent[srvNext].cmd) :
       LET r == Serve(sent[srvNext], srvNext, ch) IN
         /\ ctrl' = Append(ctrl, r.reply)
         /\ authOK' = r.auth
         /\ srvData' = r.sd
         /\ srvXfer' = r.xfer
         /\ remoteFS' = r.fs
         /\ srvPath' = IF r.xfer = "idle" THEN srvPath ELSE sent[srvNext].arg
         /\ srvEp' = r.ep
         /\ srvSrc' = CASE r.xfer = "list" ->
                              Known(Listing(remoteFS, sent[srvNext].arg))
                         [] r.xfer = "retr" ->
                              Known(remoteFS[sent[srvNext].arg].bytes)
                         [] OTHER -> srvSrc
         /\ origin' = [p \in RemotePaths |->
                         IF r.fs[p] = remoteFS[p] THEN origin[p] ELSE Unknown]
  /\ srvNext' = srvNext + 1
  /\ UNCHANGED <<session, client, sent, responses, c2s, s2c, served, localFS,
                 srvWrote, made>>

\* the server writes the listing or the file on the data connection, closes
\* it and reports 226; or the transfer breaks off after a part of the bytes
\* and it reports 426
SrvSend ==
  /\ srvXfer \in {"list", "retr"}
  /\ LET b == IF srvXfer = "list" THEN Listing(remoteFS, srvPath)
                                  ELSE remoteFS[srvPath].bytes
     IN \E n \in {Len(b)} \cup (IF Len(b) > 0 THEN {Len(b) - 1} ELSE {}) :
          /\ s2c' = s2c \o SubSeq(b, 1, n)
          /\ srvWrote' = srvWrote \o SubSeq(b, 1, n)
          /\ ctrl' = Append(ctrl, Plain(IF n = Len(b) THEN 226 ELSE 426,
                                        srvNext - 1))
          /\ served' = IF srvXfer = "retr" /\ n = Len(b)
                         THEN origin[srvPath] ELSE Unknown
  /\ srvData' = "closed"
  /\ srvXfer' = "idle"
  /\ UNCHANGED <<session, client, sent, srvNext, responses, c2s, srvPath,
                 authOK, remoteFS, origin, localFS, srvEp, srvSrc, made>>

\* the client has closed the data connection: the server stores what it
\* received and reports 226
SrvStored ==
  /\ srvXfer = "stor"
  /\ dataSock = "closed"
  /\ remoteFS' = [remoteFS EXCEPT ![srvPath] = File(c2s)]
  /\ origin' = [origin EXCEPT ![srvPath] = Known(upSrc)]
  /\ ctrl' = Append(ctrl, Plain(226, srvNext - 1))
  /\ srvData' = "closed"
  /\ srvXfer' = "idle"
  /\ UNCHANGED <<hist, session, client, sent, srvNext, responses, c2s, s2c, srvPath,
                 authOK, served, localFS>>

\* the upload breaks off on the server's side: it closes the data
\* connection, keeps nothing and reports 426
SrvStorAbort ==
  /\ srvXfer = "stor"
  /\ dataSock = "connected"
  /\ ctrl' = Append(ctrl, Plain(426, srvNext - 1))
  /\ srvData' = "closed"
  /\ srvXfer' = "idle"
  /\ UNCHANGED <<hist, session, client, sent, srvNext, responses, c2s, s2c, srvPath,
                 authOK, remoteFS, origin, served, localFS>>

\* the process has ended and the server has handled what it was sent: the
\* program is run again
StartSession ==
  /\ Terminated
  /\ session < MaxSessions
  /\ srvNext > Len(sent)
  /\ srvXfer = "idle"
  /\ session' = session + 1
  /\ \E op \in Operations, ps \in ParamLists : StartRun(op, ps)
  /\ made' = IF \E i \in 1..Len(out) : out[i] = "MkdOk" THEN rpath ELSE <<>>
  /\ UNCHANGED <<remoteFS, origin, localFS>>

Next ==
  \/ Connect
  \/ read_response
  \/ SendUser
  \/ SendPass
  \/ send_type
  \/ send_mode
  \/ send_stru
  \/ Dispatch
  \/ send_mkdir
  \/ send_rmdir
  \/ send_stor_exists
  \/ enter_passive_mode
  \/ enter_passive_mode_parse
  \/ data_connect
  \/ transfer_command
  \/ send_ls
  \/ send_stor_open
  \/ send_stor_loop
  \/ send_retr_open
  \/ send_retr_loop
  \/ send_dele
  \/ unlink
  \/ send_quit
  \/ Finish
  \/ SrvHandle
  \/ SrvSend
  \/ SrvStored
  \/ SrvStorAbort
  \/ StartSession

Spec == Init /\ [][Next]_vars

\* the client's process is scheduled: a recv of the download loop that can
\* return does return
LiveSpec == Spec /\ WF_vars(send_retr_loop)


\* ------------------------------------------------------------------ claims
Range(q) == {q[i] : i \in 1..Len(q)}
HandshakeCmds == <<"USER", "PASS", "TYPE", "MODE", "STRU">>
HandshakeArgs == <<login.username, login.password, <<"I">>, <<"S">>, <<"F">>>>
\* the client has read the reply to STRU F
Ready == Len(responses) >= 6
\* the server has nothing left to do for this session
Quiet == srvNext > Len(sent) /\ srvXfer = "idle"
MoveOfLocal == operation = "mv" /\ Method = "stor" /\ Ready /\ lpath # <<>>
MoveOfRemote == operation = "mv" /\ Method = "retr" /\ Ready /\ lpath # <<>>

\* C1: the first five commands of a session are USER, PASS, TYPE I, MODE S,
\* STRU F in this order, USER is sent only after the greeting was read, no
\* other command comes before them, none of the five is sent again, and a
\* session that is Ready has sent all five
C1_HandshakeOrder ==
  /\ \A i \in 1..Len(sent) :
       IF i <= 5
         THEN sent[i].cmd = HandshakeCmds[i] /\ sent[i].arg = HandshakeArgs[i]
         ELSE sent[i].cmd \notin Range(HandshakeCmds)
  /\ sent # <<>> => responses # <<>> /\ responses[1][1].re = 0
  /\ Ready => Len(sent) >= 5
  /\ pc \in {"done", "exited"} => Ready

C1_Witness ==
  /\ pc = "done"
  /\ Len(sent) = 8
  /\ sent[6].cmd = "PASV" /\ sent[7].cmd = "LIST" /\ sent[8].cmd = "QUIT"

\* C2: a session that was Ready and has ended sent QUIT as its last command,
\* after the command(s) of one operation
C2_QuitAlwaysSent ==
  Terminated /\ Ready =>
    /\ pc = "done"
    /\ Len(sent) >= 6
    /\ sent[Len(sent)].cmd = "QUIT"

\* C3: a session negotiates at most one data connection, so at most one is
\* open, and none is open when QUIT or the DELE of a move is sent
C3_DataClosedBeforeNextCommand ==
  /\ Cardinality({i \in 1..Len(sent) : sent[i].cmd = "PASV"}) <= 1
  /\ dataSock = "connected" => srvData \in {"accepted", "closed"}
  /\ \A i \in 1..Len(sent) :
       sent[i].cmd \in {"QUIT", "DELE"} => ~sent[i].dataOpen

C3_Witness ==
  /\ pc = "quit_r"
  /\ operation = "mv" /\ Method = "retr"
  /\ dataSock = "closed"
  /\ sent[Len(sent) - 1].cmd = "DELE"

\* C4: what the k-th read of the control socket returns is the reply to the
\* command sent just before it (the first read returns the greeting)
C4_ResponseMatchesCommand ==
  \A k \in 1..Len(responses) :
    \A j \in 1..Len(responses[k]) : responses[k][j].re = k - 1

\* C5: when a download was served completely from a remote file that an
\* upload had stored, the local file it wrote holds the bytes of the file
\* that was uploaded
C5_RoundTrip ==
  /\ Method = "retr"
  /\ pc \in {"dele", "quit", "quit_r", "done"}
  /\ dataSock = "closed"
  /\ served.known
  => localFS[lpath] = File(served.bytes)

C5_Witness ==
  /\ pc = "done"
  /\ Method = "retr"
  /\ served.known
  /\ Len(served.bytes) = ChunkSize + 1
  /\ localFS[lpath].bytes = Content(ChunkSize + 1)

\* C6: once list, upload or download has returned or raised, the client's
\* data socket is closed
C6_DataClosedOnEveryExit ==
  pc \in {"dele", "unlink", "quit", "quit_r", "done", "crashed", "exited"}
    => dataSock \in {"none", "closed"}

C6_Witness ==
  /\ pc = "crashed"
  /\ dataSock = "closed"
  /\ sent[Len(sent)].cmd = "STOR"
  /\ responses[Len(responses)][1].code = 150

\* C7: after a PASV reply without the six numbers the error is reported, no
\* data connection is made, no LIST, STOR or RETR is sent and the process
\* does not crash
C7_PasvParseErrorNotFatal ==
  "PasvParseError" \in Range(out) =>
    /\ dataSock \in {"none", "closed"}
    /\ \A i \in 1..Len(sent) : sent[i].cmd \notin {"LIST", "STOR", "RETR"}
    /\ pc # "crashed"

\* C8: a move of a local file that has ended and whose server is done left
\* the local file system as it was, unless the upload stored the file; and
\* it did not crash
C8_LocalRemovedOnlyAfterUpload ==
  MoveOfLocal /\ Terminated /\ Quiet =>
    /\ pc = "done"
    /\ localFS[lpath].kind = "none" =>
         /\ "NoLocalFile" \notin Range(out)
         /\ remoteFS[rpath] = File(upSrc)

\* C9: in a move of a remote file, DELE is sent for the path RETR was sent
\* for, after the download has ended (data socket closed, local file
\* written), and from then on the local file does not change
C9_Step ==
  MoveOfRemote /\ session' = session =>
    /\ Len(sent') > Len(sent) /\ sent'[Len(sent')].cmd = "DELE" =>
         /\ sent[Len(sent)].cmd = "RETR"
         /\ sent[Len(sent)].arg = sent'[Len(sent')].arg
         /\ dataSock = "closed"
         /\ localFS[lpath].kind = "file"
    /\ "DELE" \in {sent[i].cmd : i \in 1..Len(sent)} =>
         localFS' = localFS /\ localFS[lpath].kind = "file"

C9_DeleAfterDownload == [][C9_Step]_vars

C9_Witness ==
  /\ MoveOfRemote
  /\ pc = "done"
  /\ remoteFS[rpath].kind = "none"
  /\ localFS[lpath] = File(RemoteOld)

\* C10: send_stor called for a missing local file reports it and returns:
\* nothing is sent, no data socket is made, the control channel is untouched
C10_Step ==
  pc = "stor_check" /\ localFS[lpath].kind = "none" =>
    /\ pc' = AfterStor
    /\ out' = Append(out, "NoLocalFile")
    /\ UNCHANGED <<sent, ctrl, responses, waiting, dataSock, srvNext, server>>

C10_MissingFileNoTransfer == [][C10_Step]_vars

C10_Witness ==
  /\ "NoLocalFile" \in Range(out)
  /\ pc = "done"
  /\ Len(sent) = 6

\* the reply the server gave to the i-th command, once the client has read it
ReadReplies == UNION {Range(responses[j]) : j \in 1..Len(responses)}
HasReadReplyTo(i) == \E r \in ReadReplies : r.re = i
CodeReadFor(i) == (CHOOSE r \in ReadReplies : r.re = i).code
\* the MKD / RMD of a mkdir / rmdir run is the sixth command
Judged(op) ==
  /\ operation = op
  /\ Len(sent) >= 6
  /\ pc \in {"quit", "quit_r", "done"}

\* C11: a mkdir run reports success exactly when the reply to MKD has code
\* 257 and failure otherwise, a rmdir run reports success exactly when the
\* reply to RMD has code 250 and failure otherwise; after either outcome the
\* run does not stop abnormally and QUIT is its next and last command; and
\* when the previous run reported the creation of a directory and this run
\* removes the same directory on a server that accepted the login, this run
\* reports success
C11_MkdirRmdirOutcome ==
  /\ Judged("mkdir") =>
        /\ sent[6].cmd = "MKD" /\ HasReadReplyTo(6)
        /\ out = IF CodeReadFor(6) = 257 THEN <<"MkdOk">> ELSE <<"MkdFailed">>
  /\ Judged("rmdir") =>
        /\ sent[6].cmd = "RMD" /\ HasReadReplyTo(6)
        /\ out = IF CodeReadFor(6) = 250 THEN <<"RmdOk">> ELSE <<"RmdFailed">>
  /\ operation \in {"mkdir", "rmdir"} /\ Len(sent) >= 6 =>
        /\ pc \notin {"crashed", "exited"}
        /\ Len(sent) <= 7
        /\ Len(sent) = 7 => sent[7].cmd = "QUIT"
        /\ pc = "done" => Len(sent) = 7
  /\ Judged("rmdir") /\ made # <<>> /\ rpath = made /\ authOK =>
        out = <<"RmdOk">>
\* a rmdir run has reported success for the directory the run before it
\* reported as created
C11_Witness ==
  /\ Judged("rmdir") /\ pc = "done"
  /\ made = R_A /\ rpath = made
  /\ out = <<"RmdOk">>

\* C12: when the reply the client read for the DELE of a rm run is not 250
\* (the path does not exist on the server), the run has reported a failure by
\* the time it goes on to QUIT, and it does not stop abnormally
C12_DeleteFailureReported ==
  Judged("rm") /\ HasReadReplyTo(6) /\ CodeReadFor(6) # 250 =>
    /\ sent[6].cmd = "DELE"
    /\ out # <<>>

\* both arguments of a copy or move are ftp:// URLs, or neither is
Ambiguous ==
  /\ operation \in {"cp", "mv"}
  /\ Len(params) = 2
  /\ StartsWith(params[1], FTP_SCHEME) <=> StartsWith(params[2], FTP_SCHEME)

\* C13: a copy or move whose arguments are both ftp:// URLs, or both local
\* paths, sends none of PASV, STOR, RETR and DELE
C13_AmbiguousCopyRejected ==
  Ambiguous =>
    \A i \in 1..Len(sent) : sent[i].cmd \notin {"PASV", "STOR", "RETR", "DELE"}

\* the client has sent PASV as its i-th command, read a 227 reply to it and
\* searched that reply for the address
ParsedPasv(i) ==
  /\ i \in 1..Len(sent)
  /\ sent[i].cmd = "PASV"
  /\ HasReadReplyTo(i)
  /\ CodeReadFor(i) = 227
  /\ pc # "pasv_r"
PasvReplyRead(i) == CHOOSE r \in ReadReplies : r.re = i

\* C14: when the reply read for PASV carries, as its first run of six
\* comma-separated numbers, a,b,c,d,p1,p2 (each in 0..255),
\* enter_passive_mode returns the address "a.b.c.d" and the port
\* p1 * 256 + p2, which lies in 0..65535 and is the port the server listens
\* on; "(192,168,1,5,200,3)" gives ("192.168.1.5", 51203)
C14_PasvEndpoint ==
  /\ \A i \in 1..Len(sent) : ParsedPasv(i) =>
        \E r \in PasvReplies :
          /\ PasvReplyRead(i).text = r.text
          /\ \A k \in 1..6 : r.host[k] \in 0..255
          /\ endpoint.ok
          /\ endpoint.ip = <<Num(r.host[1]), Dot, Num(r.host[2]), Dot,
                             Num(r.host[3]), Dot, Num(r.host[4])>>
          /\ endpoint.port = r.host[5] * 256 + r.host[6]
          /\ endpoint.port \in 0..65535
          /\ endpoint = srvEp
  /\ PasvEndpoint(PasvText(<<192, 168, 1, 5, 200, 3>>)) =
        [ok |-> TRUE,
         ip |-> <<Num(192), Dot, Num(168), Dot, Num(1), Dot, Num(5)>>,
         port |-> 51203]
\* the data connection was opened to 192.168.1.5 port 51203, read from a
\* reply whose text has other numbers before the address
C14_Witness ==
  /\ ParsedPasv(6)
  /\ PasvReplyRead(6).text = PasvTextLong(H_DOC)
  /\ endpoint.port = 51203
  /\ dataSock = "connected"

\* the URL ftp://<username>:<password><path>
UrlOf(username, password, path) ==
  FTP_SCHEME \o username \o <<":">> \o password \o path

\* C15: when the URL of the run is ftp://<username>:<password><path>, with
\* <path> empty or starting at the first '/' after the password, parse_url
\* has returned <username>, <password> and <path>, or "/" for an empty path
C15_ParseUrl ==
  login.ok =>
    \A path \in {<<>>, R_A} :
      PickUrl(operation, params) = UrlOf(<<"u">>, <<"p">>, path) =>
        /\ login.username = <<"u">>
        /\ login.password = <<"p">>
        /\ login.path = IF path = <<>> THEN <<"/">> ELSE path

\* C16: when send_ls has returned, the listing it read and printed is
\* everything the server wrote on the data connection
C16_ListingComplete ==
  operation = "ls" /\ pc \in {"quit", "quit_r", "done"} =>
    listed = srvWrote

\* send_retr has returned normally
RetrReturned ==
  /\ operation \in {"cp", "mv"}
  /\ Len(params) = 2
  /\ Method = "retr"
  /\ pc \in {"dele", "quit", "quit_r", "done"}

C17_FileIsWhatWasSent ==
  /\ pc = "retr_loop" =>
        /\ localFS[lpath].kind = "file"
        /\ localFS[lpath].bytes \o s2c = srvWrote
  /\ RetrReturned =>
        /\ localFS[lpath] = File(srvWrote)
        /\ s2c = <<>>
        /\ srvData = "closed"

\* C17: a download creates or truncates the local file, appends what each
\* recv returns in the order of arrival and leaves the loop at the first
\* zero-length read, so that during the loop the file followed by the bytes
\* still under way is what the server wrote, and on return the file holds
\* exactly the bytes the server wrote; and once the server has closed the
\* data connection the loop ends
C17_Download ==
  /\ []C17_FileIsWhatWasSent
  /\ (pc = "retr_loop" /\ srvData = "closed") ~> (pc # "retr_loop")
\* a download of three bytes, more than one recv can return, has returned
C17_Witness ==
  /\ RetrReturned
  /\ session = 2
  /\ Len(srvWrote) = 3
  /\ localFS[lpath] = File(srvWrote)

TransferCmds == {"LIST", "STOR", "RETR"}
CountOf(cmds) == Cardinality({i \in 1..Len(sent) : sent[i].cmd \in cmds})
\* the client has moved bytes over the data connection, or is about to
MovingBytes ==
  \/ pc \in {"stor_loop", "retr_loop"}
  \/ c2s # <<>>
  \/ listed # <<>>

\* C18: a run sends at most one PASV and at most one of LIST, STOR, RETR;
\* PASV is sent while no data connection is open; the data connection is
\* opened only after the reply to PASV was read, and to the endpoint read
\* from that reply; LIST/STOR/RETR is the command right after PASV and is
\* sent over an open data connection; bytes move only after the reply to
\* LIST/STOR/RETR was read; every later command is sent with the data
\* connection closed, and no later command is PASV or a transfer
C18_PasvExchangeOrder ==
  /\ CountOf({"PASV"}) <= 1
  /\ CountOf(TransferCmds) <= 1
  /\ \A i \in 1..Len(sent) :
        /\ sent[i].cmd = "PASV" => ~sent[i].dataOpen
        /\ sent[i].cmd \in TransferCmds =>
              /\ i > 1 /\ sent[i - 1].cmd = "PASV"
              /\ sent[i].dataOpen
              /\ \A j \in (i + 1)..Len(sent) : ~sent[j].dataOpen
  /\ dataSock = "connected" =>
        /\ CountOf({"PASV"}) = 1
        /\ HasReadReplyTo(Len(sent)) \/ sent[Len(sent)].cmd \in TransferCmds
        /\ \E i \in 1..Len(sent) :
              /\ sent[i].cmd = "PASV" /\ HasReadReplyTo(i)
              /\ endpoint = PasvEndpoint(PasvReplyRead(i).text)
              /\ endpoint = srvEp
  /\ MovingBytes =>
        \E i \in 1..Len(sent) :
          sent[i].cmd \in TransferCmds /\ HasReadReplyTo(i)
  /\ pc \in {"dele", "unlink", "quit", "quit_r", "done"} =>
        dataSock # "connected"
\* an upload went through the whole exchange: PASV, its reply, the data
\* connection, STOR, its reply, the bytes, the close, then QUIT
C18_Witness ==
  /\ pc = "done"
  /\ CountOf({"PASV"}) = 1
  /\ Len(sent) = 8
  /\ sent[7].cmd = "STOR" /\ sent[7].dataOpen
  /\ c2s # <<>>
  /\ dataSock = "closed"

\* the client has read a reply to USER or to PASS whose code is not 2xx or,
\* for USER, 331
LoginRefused ==
  \E i \in {1, 2} :
    /\ HasReadReplyTo(i)
    /\ CodeReadFor(i) \notin (200..299) \cup {331}
\* the commands of the operations that take one URL
OpCmds ==
  CASE operation = "ls" -> <<"PASV", "LIST">>
    [] operation = "rm" -> <<"DELE">>
    [] operation = "mkdir" -> <<"MKD">>
    [] OTHER -> <<"RMD">>

C20_NoLossOnRemoteMove ==
  /\ MoveOfRemote /\ "DELE" \in {sent[i].cmd : i \in 1..Len(sent)} =>
        /\ \E i \in 1..Len(sent) :
              /\ sent[i].cmd = "RETR"
              /\ HasReadReplyTo(i)
              /\ CodeReadFor(i) = 150
        /\ srvSrc.known
        /\ localFS[lpath] = File(srvSrc.bytes)
  /\ MoveOfRemote /\ pc = "done" /\ srvSrc.known =>
        \/ remoteFS[rpath] = File(srvSrc.bytes)
        \/ localFS[lpath] = File(srvSrc.bytes)
====
